---- MODULE Spec2Model ----
(***************************************************************************)
(* littledb: an embedded key-value store (Database) over a whole-snapshot  *)
(* StorageEngine.  Strings are sequences of UTF-8 bytes, the file is a     *)
(* sequence of bytes, and the snapshot format is bincode's (fixed-width    *)
(* little-endian integers, u64 lengths, u32 enum variant indexes).         *)
(***************************************************************************)
EXTENDS Integers, Sequences, FiniteSets, TLC

VARIABLES store, auto_save, file, last

vars == <<store, auto_save, file, last>>

(***************************************************************************)
(* Bounds of the model.                                                    *)
(***************************************************************************)
\* longest list handed to batch_insert / batch_delete
MaxBatch == 2
\* most bytes a failing write_all has put into the file before it failed
MaxPartial == 2
\* the longest list of conditions given to query_multiple
MaxConds == 2
\* the bytes one write to the file transfers; a crash falls between two writes
MaxChunk == 5
\* the most blocks appended to the file
MaxAppends == 2

(***************************************************************************)
(* Value (value.rs): a tagged union; the variant is field t.               *)
(***************************************************************************)
VString(s) == [t |-> "String", s |-> s]
VInteger(i) == [t |-> "Integer", i |-> i]
\* a Float is carried by its 8 IEEE-754 bytes, least significant first
VFloat(bits) == [t |-> "Float", bits |-> bits]
VBoolean(b) == [t |-> "Boolean", b |-> b]
VArray(a) == [t |-> "Array", a |-> a]
VObject(o) == [t |-> "Object", o |-> o]
VNull == [t |-> "Null"]

\* the variant's index in the enum declaration, which serde writes as the tag
VariantIndex(v) ==
    CASE v.t = "String" -> 0
      [] v.t = "Integer" -> 1
      [] v.t = "Float" -> 2
      [] v.t = "Boolean" -> 3
      [] v.t = "Array" -> 4
      [] v.t = "Object" -> 5
      [] v.t = "Null" -> 6

\* Option<T>
None == [some |-> FALSE]
Some(x) == [some |-> TRUE, v |-> x]

\* HashMap<String, Value> is a function from a finite set of strings
EmptyMap == << >>
MapInsert(m, k, v) == [x \in (DOMAIN m) \cup {k} |-> IF x = k THEN v ELSE m[x]]
MapRemove(m, k) == [x \in (DOMAIN m) \ {k} |-> m[x]]

(***************************************************************************)
(* bincode::serialize (storage.rs:33) of the serde-derived types, in the   *)
(* format of bincode 1 (the version with the serialize and deserialize     *)
(* functions).  It cannot fail for a HashMap<String, Value>.               *)
(* A HashMap is written in its iteration order, which the hasher's random  *)
(* seed decides: Serialize yields the set of byte strings it can produce.  *)
(***************************************************************************)
\* the low byte of x and the rest, in two's complement (\div rounds down)
Lo(x) == x % 256
Hi(x) == x \div 256

\* fixed-width little-endian integers
SerU32(n) == <<Lo(n), Lo(Hi(n)), 0, 0>>
SerU64(n) == <<Lo(n), Lo(Hi(n)), 0, 0, 0, 0, 0, 0>>
\* (mutant) the i64 written as if unsigned: the high bytes are zero
SerI64ZeroExtended(i) == <<Lo(i), Lo(Hi(i)), Lo(Hi(Hi(i))), 0, 0, 0, 0, 0>>

\* an i64 of the model fits 3 bytes; the bytes above repeat its sign
SerI64(i) ==
    LET ext == IF i < 0 THEN 255 ELSE 0 IN
    <<Lo(i), Lo(Hi(i)), Lo(Hi(Hi(i))), ext, ext, ext, ext, ext>>
SerString(s) == SerU64(Len(s)) \o s

RECURSIVE SerValue(_), SerElements(_), SerEntries(_, _)
SerValue(v) ==
    CASE v.t = "String" -> {SerU32(VariantIndex(v)) \o SerString(v.s)}
      [] v.t = "Integer" -> {SerU32(VariantIndex(v)) \o SerI64(v.i)}
      [] v.t = "Float" -> {SerU32(VariantIndex(v)) \o v.bits}
      [] v.t = "Boolean" -> {SerU32(VariantIndex(v)) \o <<IF v.b THEN 1 ELSE 0>>}
      [] v.t = "Array" -> {SerU32(VariantIndex(v)) \o SerU64(Len(v.a)) \o e : e \in SerElements(v.a)}
      [] v.t = "Object" ->
            {SerU32(VariantIndex(v)) \o SerU64(Cardinality(DOMAIN v.o)) \o e :
                e \in SerEntries(v.o, DOMAIN v.o)}
      [] v.t = "Null" -> {SerU32(VariantIndex(v))}

\* the elements of a Vec, in order
SerElements(a) ==
    IF a = << >> THEN {<< >>}
    ELSE {h \o r : h \in SerValue(Head(a)), r \in SerElements(Tail(a))}

\* the entries of m with keys in S, in any order
SerEntries(m, S) ==
    IF S = {} THEN {<< >>}
    ELSE UNION {{SerString(k) \o e \o r :
                    e \in SerValue(m[k]), r \in SerEntries(m, S \ {k})} : k \in S}

Serialize(data) ==
    {SerU64(Cardinality(DOMAIN data)) \o e : e \in SerEntries(data, DOMAIN data)}

(***************************************************************************)
(* bincode::deserialize (storage.rs:119).  A reader returns                *)
(* [ok, v, pos]: pos is the next unread byte (1-based).  Bytes after the   *)
(* decoded mapping are allowed (bincode::deserialize allows trailing       *)
(* bytes).                                                                 *)
(***************************************************************************)
Fail == [ok |-> FALSE]
Read(v, p) == [ok |-> TRUE, v |-> v, pos |-> p]

\* an unsigned little-endian integer of w bytes; -1 when it exceeds 2^16,
\* more than any file of the model holds (every such length runs into EOF)
DeU(b, p, w) ==
    IF p + w - 1 > Len(b) THEN Fail
    ELSE IF \E i \in 2..(w - 1) : b[p + i] # 0 THEN Read(-1, p + w)
    ELSE Read(b[p] + 256 * b[p + 1], p + w)

RECURSIVE SignedBE(_, _, _)
\* the two's complement value of bytes b[p..p+n-1], most significant last
SignedBE(b, p, n) ==
    IF n = 1 THEN (IF b[p] >= 128 THEN b[p] - 256 ELSE b[p])
    ELSE 256 * SignedBE(b, p + 1, n - 1) + b[p]

\* some i64 outside the range of the model's integers
BigInt == 1073741824

\* i64: the integers of the model fit 3 bytes, the 5 bytes above repeating
\* the sign; any other i64 is read as BigInt
DeI64(b, p) ==
    IF p + 7 > Len(b) THEN Fail
    ELSE LET ext == IF b[p + 2] >= 128 THEN 255 ELSE 0 IN
         IF \A i \in 3..7 : b[p + i] = ext THEN Read(SignedBE(b, p, 3), p + 8)
         ELSE Read(BigInt, p + 8)

RECURSIVE Utf8Valid(_, _, _)
\* bytes b[p..q] are well-formed UTF-8 (str::from_utf8): a lead byte and the
\* continuation bytes 128..191 it announces
Utf8Valid(b, p, q) ==
    IF p > q THEN TRUE
    ELSE LET more == CASE b[p] < 128 -> 0
                       [] b[p] \in 194..223 -> 1
                       [] b[p] \in 224..239 -> 2
                       [] b[p] \in 240..244 -> 3
                       [] OTHER -> -1
         IN  /\ more >= 0
             /\ p + more <= q
             /\ \A i \in (p + 1)..(p + more) : b[i] \in 128..191
             /\ Utf8Valid(b, p + more + 1, q)

\* String: a u64 length, then that many bytes of valid UTF-8
DeString(b, p) ==
    LET n == DeU(b, p, 8) IN
    IF ~n.ok THEN Fail
    ELSE IF n.v < 0 \/ n.pos + n.v - 1 > Len(b) THEN Fail
    ELSE IF ~Utf8Valid(b, n.pos, n.pos + n.v - 1) THEN Fail
    ELSE Read(SubSeq(b, n.pos, n.pos + n.v - 1), n.pos + n.v)

RECURSIVE DeValue(_, _), DeElements(_, _, _, _), DeEntries(_, _, _, _)
DeValue(b, p) ==
    LET tag == DeU(b, p, 4) IN
    IF ~tag.ok THEN Fail
    ELSE CASE tag.v = 0 ->
                LET s == DeString(b, tag.pos) IN
                IF s.ok THEN Read(VString(s.v), s.pos) ELSE Fail
           [] tag.v = 1 ->
                LET i == DeI64(b, tag.pos) IN
                IF i.ok THEN Read(VInteger(i.v), i.pos) ELSE Fail
           [] tag.v = 2 ->
                IF tag.pos + 7 > Len(b) THEN Fail
                ELSE Read(VFloat(SubSeq(b, tag.pos, tag.pos + 7)), tag.pos + 8)
           [] tag.v = 3 ->
                IF tag.pos > Len(b) \/ b[tag.pos] \notin {0, 1} THEN Fail
                ELSE Read(VBoolean(b[tag.pos] = 1), tag.pos + 1)
           [] tag.v = 4 ->
                LET n == DeU(b, tag.pos, 8) IN
                IF ~n.ok \/ n.v < 0 THEN Fail
                ELSE LET a == DeElements(b, n.pos, n.v, << >>) IN
                     IF a.ok THEN Read(VArray(a.v), a.pos) ELSE Fail
           [] tag.v = 5 ->
                LET n == DeU(b, tag.pos, 8) IN
                IF ~n.ok \/ n.v < 0 THEN Fail
                ELSE LET o == DeEntries(b, n.pos, n.v, EmptyMap) IN
                     IF o.ok THEN Read(VObject(o.v), o.pos) ELSE Fail
           [] tag.v = 6 -> Read(VNull, tag.pos)
           [] OTHER -> Fail

\* n more elements of a Vec, appended to acc
DeElements(b, p, n, acc) ==
    IF n = 0 THEN Read(acc, p)
    ELSE LET e == DeValue(b, p) IN
         IF ~e.ok THEN Fail ELSE DeElements(b, e.pos, n - 1, Append(acc, e.v))

\* n more entries of a HashMap, inserted into acc (a repeated key overwrites)
DeEntries(b, p, n, acc) ==
    IF n = 0 THEN Read(acc, p)
    ELSE LET k == DeString(b, p) IN
         IF ~k.ok THEN Fail
         ELSE LET e == DeValue(b, k.pos) IN
              IF ~e.ok THEN Fail
              ELSE DeEntries(b, e.pos, n - 1, MapInsert(acc, k.v, e.v))

\* (mutant) a decoder that rejects bytes after the mapping
DeserializeStrict(b) ==
    LET n == DeU(b, 1, 8)
        d == IF ~n.ok \/ n.v < 0 THEN Fail ELSE DeEntries(b, n.pos, n.v, EmptyMap)
    IN  IF d.ok /\ d.pos = Len(b) + 1 THEN d ELSE Fail

Deserialize(b) ==
    LET n == DeU(b, 1, 8) IN
    IF ~n.ok \/ n.v < 0 THEN Fail ELSE DeEntries(b, n.pos, n.v, EmptyMap)

(***************************************************************************)
(* StorageEngine (storage.rs).  The file at file_path either does not      *)
(* exist or holds a sequence of bytes.                                     *)
(***************************************************************************)
NoFile == [exists |-> FALSE, bytes |-> << >>]
FileOf(bytes) == [exists |-> TRUE, bytes |-> bytes]

Ok == "Ok"
Err == "Err"

Min(a, b) == IF a < b THEN a ELSE b

\* (mutant) save through a temporary file renamed over the path at the end:
\* a failure at any stage leaves the file untouched
StorageSaveAtomic(f, data) ==
    UNION {
        {[res |-> Err, at |-> at, file |-> f] : at \in {"create", "write", "sync"}}
        \cup {[res |-> Ok, at |-> "", file |-> FileOf(encoded)]}
        : encoded \in Serialize(data)}

\* StorageEngine::save: the outcomes [res, file] of one call.
\*   File::create fails    -> the error, the file untouched
\*   write_all fails       -> the error, the file truncated and holding the
\*                            bytes written before the failure
\*   sync_all fails        -> the error, the file holding all the bytes
\*   otherwise             -> Ok, the file holding all the bytes
StorageSave(f, data) ==
    UNION {
        {[res |-> Err, at |-> "create", file |-> f]}
        \cup {[res |-> Err, at |-> "write", file |-> FileOf(SubSeq(encoded, 1, n))] :
                n \in 0..Min(MaxPartial, Len(encoded) - 1)}
        \cup {[res |-> Err, at |-> "sync", file |-> FileOf(encoded)]}
        \cup {[res |-> Ok, at |-> "", file |-> FileOf(encoded)]}
        : encoded \in Serialize(data)}

\* (mutant) load reporting a missing file as an error
StorageLoadStrict(f) ==
    IF ~f.exists THEN [res |-> Err]
    ELSE LET d == Deserialize(f.bytes) IN
         IF d.ok THEN [res |-> Ok, data |-> d.v] ELSE [res |-> Err]

\* StorageEngine::load: [res, data].  No file is not an error; the file is
\* read whole and decoded as one mapping (File::open and read_to_end of a
\* file that exists are taken to succeed).
StorageLoad(f) ==
    IF ~f.exists THEN [res |-> Ok, data |-> EmptyMap]
    ELSE LET d == Deserialize(f.bytes) IN
         IF d.ok THEN [res |-> Ok, data |-> d.v] ELSE [res |-> Err]

\* StorageEngine::append: the outcomes [res, at, file] of one call.  The
\* block is the encoding of a mapping holding the one entry.
\*   OpenOptions::open fails -> the error, the file untouched
\*   write_all fails         -> the error, the file (created if it was not
\*                              there) followed by the bytes written before
\*   otherwise               -> Ok, the file followed by the block
StorageAppend(f, key, value) ==
    UNION {
        {[res |-> Err, at |-> "open", file |-> f]}
        \cup {[res |-> Err, at |-> "write",
               file |-> FileOf(f.bytes \o SubSeq(encoded, 1, n))] :
                n \in 0..Min(MaxPartial, Len(encoded) - 1)}
        \cup {[res |-> Ok, at |-> "", file |-> FileOf(f.bytes \o encoded)]}
        : encoded \in Serialize([k \in {key} |-> value])}

(***************************************************************************)
(* Value accessors and equality (value.rs), Condition (condition.rs).      *)
(***************************************************************************)
\* Value::as_integer: only the Integer variant has one
AsInteger(v) == IF v.t = "Integer" THEN Some(v.i) ELSE None

\* Value::as_string: only the String variant has one
AsString(v) == IF v.t = "String" THEN Some(v.s) ELSE None

\* Value::get_field: a field of an Object; None for the other variants
GetField(v, field) ==
    IF v.t = "Object" /\ field \in DOMAIN v.o THEN Some(v.o[field]) ELSE None

\* f64: a NaN has all exponent bits set and a non-zero mantissa; the two
\* zeros differ in the sign bit only
IsNaN(bits) ==
    /\ bits[8] % 128 = 127
    /\ bits[7] >= 240
    /\ (bits[7] % 16 # 0 \/ \E i \in 1..6 : bits[i] # 0)
IsZero(bits) == bits[8] % 128 = 0 /\ \A i \in 1..7 : bits[i] = 0

\* (mutant) f64 compared by its bits
F64EqBits(x, y) == x = y

\* == of f64, which the derived PartialEq uses for Float: IEEE-754 equality
F64Eq(x, y) == ~IsNaN(x) /\ ~IsNaN(y) /\ (x = y \/ (IsZero(x) /\ IsZero(y)))

RECURSIVE ValueEq(_, _)
\* the derived PartialEq of Value: same variant, payloads equal by the
\* payload type's own ==; Vec element by element, HashMap key by key
ValueEq(x, y) ==
    IF x.t # y.t THEN FALSE
    ELSE CASE x.t = "String" -> x.s = y.s
           [] x.t = "Integer" -> x.i = y.i
           [] x.t = "Float" -> F64Eq(x.bits, y.bits)
           [] x.t = "Boolean" -> x.b = y.b
           [] x.t = "Array" ->
                /\ Len(x.a) = Len(y.a)
                /\ \A i \in 1..Len(x.a) : ValueEq(x.a[i], y.a[i])
           [] x.t = "Object" ->
                /\ Cardinality(DOMAIN x.o) = Cardinality(DOMAIN y.o)
                /\ \A k \in DOMAIN x.o : k \in DOMAIN y.o /\ ValueEq(x.o[k], y.o[k])
           [] x.t = "Null" -> TRUE

\* str::contains and str::starts_with, on the bytes of the strings
StrContains(s, sub) ==
    \E i \in 0..(Len(s) - Len(sub)) : SubSeq(s, i + 1, i + Len(sub)) = sub
StartsWith(s, prefix) ==
    Len(prefix) <= Len(s) /\ SubSeq(s, 1, Len(prefix)) = prefix

\* enum Condition
Equals(field, expected) == [c |-> "Equals", field |-> field, value |-> expected]
GreaterThan(field, threshold) ==
    [c |-> "GreaterThan", field |-> field, threshold |-> threshold]
LessThan(field, threshold) ==
    [c |-> "LessThan", field |-> field, threshold |-> threshold]
Contains(field, substring) ==
    [c |-> "Contains", field |-> field, substring |-> substring]
Between(field, min, max) ==
    [c |-> "Between", field |-> field, min |-> min, max |-> max]

\* (mutant) Equals taking an absent field for Null
MatchesEqualsAbsentIsNull(field, expected, value) ==
    LET actual == GetField(value, field) IN
    IF actual.some THEN ValueEq(actual.v, expected) ELSE expected = VNull

\* the Condition::Equals arm of matches
MatchesEquals(field, expected, value) ==
    LET actual == GetField(value, field) IN
    IF actual.some THEN ValueEq(actual.v, expected) ELSE FALSE

\* (mutant) GreaterThan that is not strict
MatchesGreaterThanOrEqual(field, threshold, value) ==
    LET actual == GetField(value, field) IN
    IF actual.some /\ AsInteger(actual.v).some
    THEN AsInteger(actual.v).v >= threshold
    ELSE FALSE

\* the Condition::GreaterThan arm
MatchesGreaterThan(field, threshold, value) ==
    LET actual == GetField(value, field) IN
    IF actual.some /\ AsInteger(actual.v).some
    THEN AsInteger(actual.v).v > threshold
    ELSE FALSE

\* the Condition::LessThan arm
MatchesLessThan(field, threshold, value) ==
    LET actual == GetField(value, field) IN
    IF actual.some /\ AsInteger(actual.v).some
    THEN AsInteger(actual.v).v < threshold
    ELSE FALSE

\* (mutant) Contains testing for a prefix
MatchesContainsPrefix(field, substring, value) ==
    LET actual == GetField(value, field) IN
    IF actual.some /\ AsString(actual.v).some
    THEN StartsWith(AsString(actual.v).v, substring)
    ELSE FALSE

\* the Condition::Contains arm
MatchesContains(field, substring, value) ==
    LET actual == GetField(value, field) IN
    IF actual.some /\ AsString(actual.v).some
    THEN StrContains(AsString(actual.v).v, substring)
    ELSE FALSE

\* (mutant) Between leaving out its upper end
MatchesBetweenHalfOpen(field, min, max, value) ==
    LET actual == GetField(value, field) IN
    IF actual.some /\ AsInteger(actual.v).some
    THEN AsInteger(actual.v).v >= min /\ AsInteger(actual.v).v < max
    ELSE FALSE

\* the Condition::Between arm
MatchesBetween(field, min, max, value) ==
    LET actual == GetField(value, field) IN
    IF actual.some /\ AsInteger(actual.v).some
    THEN AsInteger(actual.v).v >= min /\ AsInteger(actual.v).v <= max
    ELSE FALSE

\* Condition::matches
Matches(cond, value) ==
    CASE cond.c = "Equals" -> MatchesEquals(cond.field, cond.value, value)
      [] cond.c = "GreaterThan" -> MatchesGreaterThan(cond.field, cond.threshold, value)
      [] cond.c = "LessThan" -> MatchesLessThan(cond.field, cond.threshold, value)
      [] cond.c = "Contains" -> MatchesContains(cond.field, cond.substring, value)
      [] cond.c = "Between" -> MatchesBetween(cond.field, cond.min, cond.max, value)

(***************************************************************************)
(* Database (database.rs).  Each handler is an operator from the state     *)
(* before the call to the set of its outcomes                              *)
(*   [store, file, res, ret, saves]                                        *)
(* res is Ok or Err; ret is the value returned with Ok ("unit" for ()), or *)
(* the error returned with Err: the name of the file operation whose       *)
(* io::Error it is, "decode", or "KeyNotFound"; saves are the mappings     *)
(* handed to StorageEngine::save during the call, in order.                *)
(***************************************************************************)
Outcome(s, f, res, ret, saves) ==
    [store |-> s, file |-> f, res |-> res, ret |-> ret, saves |-> saves]

\* Database::save
DbSave(s, f) ==
    {Outcome(s, o.file, o.res, IF o.res = Ok THEN "unit" ELSE o.at, <<s>>) :
        o \in StorageSave(f, s)}

\* (mutant) load emptying the mapping when the file cannot be decoded
DbLoadClearsOnError(s, f) ==
    LET r == StorageLoad(f) IN
    IF r.res = Ok THEN {Outcome(r.data, f, Ok, "unit", << >>)}
    ELSE {Outcome(EmptyMap, f, Err, "decode", << >>)}

\* (mutant) load merging the snapshot into the entries held in memory
DbLoadMerge(s, f) ==
    LET r == StorageLoad(f) IN
    IF r.res = Ok
    THEN {Outcome([k \in DOMAIN s \cup DOMAIN r.data |->
                     IF k \in DOMAIN r.data THEN r.data[k] ELSE s[k]],
                  f, Ok, "unit", << >>)}
    ELSE {Outcome(s, f, Err, "decode", << >>)}

\* Database::load: the mapping is assigned only when the load succeeded
DbLoad(s, f) ==
    LET r == StorageLoad(f) IN
    IF r.res = Ok THEN {Outcome(r.data, f, Ok, "unit", << >>)}
    ELSE {Outcome(s, f, Err, "decode", << >>)}

\* (mutant) the tail of insert and batch_insert saving whatever the flag says
AutoSaveAlways(s, auto, f, ret) ==
    {Outcome(s, o.file, o.res, IF o.res = Ok THEN ret ELSE o.at, <<s>>) :
        o \in StorageSave(f, s)}

\* the tail of insert and batch_insert: `if self.auto_save { self.save()?; }`
\* and then Ok(ret)
AutoSave(s, auto, f, ret) ==
    IF auto
    THEN {Outcome(s, o.file, o.res, IF o.res = Ok THEN ret ELSE o.at, <<s>>) :
            o \in StorageSave(f, s)}
    ELSE {Outcome(s, f, Ok, ret, << >>)}

\* (mutant) insert saving only the entry it was given, not the whole mapping
DbInsertDelta(s, auto, f, key, value) ==
    LET full == MapInsert(s, key, value)
        delta == MapInsert(EmptyMap, key, value) IN
    IF auto
    THEN {Outcome(full, o.file, o.res, IF o.res = Ok THEN "unit" ELSE o.at, <<delta>>) :
            o \in StorageSave(f, delta)}
    ELSE {Outcome(full, f, Ok, "unit", << >>)}

\* (mutant) insert undoing its mutation when the save fails
DbInsertRollback(s, auto, f, key, value) ==
    {IF o.res = Ok THEN o ELSE [o EXCEPT !.store = s] :
        o \in AutoSave(MapInsert(s, key, value), auto, f, "unit")}

\* (mutant) insert keeping the value of a key that is present
DbInsertIfAbsent(s, auto, f, key, value) ==
    AutoSave(IF key \in DOMAIN s THEN s ELSE MapInsert(s, key, value), auto, f, "unit")

\* (mutant) insert saving the entries in memory over those of the snapshot
\* on disk, so that an entry only the snapshot holds stays in the file
DbInsertOverSnapshot(s, auto, f, key, value) ==
    LET full == MapInsert(s, key, value)
        r == StorageLoad(f)
        kept == IF r.res = Ok THEN r.data ELSE EmptyMap
        merged == [k \in (DOMAIN kept) \cup (DOMAIN full) |->
                      IF k \in DOMAIN full THEN full[k] ELSE kept[k]] IN
    IF auto
    THEN {Outcome(full, o.file, o.res, IF o.res = Ok THEN "unit" ELSE o.at, <<merged>>) :
            o \in StorageSave(f, merged)}
    ELSE {Outcome(full, f, Ok, "unit", << >>)}

\* Database::insert
DbInsert(s, auto, f, key, value) ==
    AutoSave(MapInsert(s, key, value), auto, f, "unit")

RECURSIVE InsertAllFirstWins(_, _)
\* (mutant) the loop of batch_insert skipping a key it has already set
InsertAllFirstWins(s, entries) ==
    IF entries = << >> THEN s
    ELSE LET rest == InsertAllFirstWins(s, Tail(entries)) IN
         MapInsert(rest, Head(entries)[1], Head(entries)[2])

RECURSIVE InsertAll(_, _)
\* the loop of batch_insert
InsertAll(s, entries) ==
    IF entries = << >> THEN s
    ELSE InsertAll(MapInsert(s, Head(entries)[1], Head(entries)[2]), Tail(entries))

RECURSIVE InsertEach(_, _, _, _, _)
\* (mutant) batch_insert calling insert for every entry: a save per entry,
\* the first failing save ending the call
InsertEach(s, auto, f, entries, saves) ==
    IF entries = << >> THEN {Outcome(s, f, Ok, 0, saves)}
    ELSE UNION {
        IF o.res = Ok
        THEN InsertEach(o.store, auto, o.file, Tail(entries), saves \o o.saves)
        ELSE {[o EXCEPT !.saves = saves \o o.saves]}
        : o \in AutoSave(MapInsert(s, Head(entries)[1], Head(entries)[2]), auto, f, "unit")}

DbBatchInsertEach(s, auto, f, entries) ==
    {IF o.res = Ok THEN [o EXCEPT !.ret = Len(entries)] ELSE o :
        o \in InsertEach(s, auto, f, entries, << >>)}

\* (mutant) batch_insert returning the number of keys it set
DbBatchInsertCountsKeys(s, auto, f, entries) ==
    AutoSave(InsertAll(s, entries), auto, f,
             Cardinality({entries[i][1] : i \in 1..Len(entries)}))

\* Database::batch_insert
DbBatchInsert(s, auto, f, entries) ==
    LET count == Len(entries) IN
    AutoSave(InsertAll(s, entries), auto, f, count)

\* Database::get, count, exists
Get(s, key) == IF key \in DOMAIN s THEN Some(s[key]) ELSE None
Count(s) == Cardinality(DOMAIN s)
Exists(s, key) == key \in DOMAIN s

RECURSIVE Orders(_)
\* the orders in which the items of a HashMap can be iterated: an iteration
\* visits each item once, in an order the hasher decides
Orders(S) ==
    IF S = {} THEN {<< >>}
    ELSE UNION {{<<x>> \o q : q \in Orders(S \ {x})} : x \in S}

RECURSIVE Digits(_)
\* the decimal digits of a natural number, as ASCII
Digits(n) == IF n < 10 THEN <<48 + n>> ELSE Append(Digits(n \div 10), 48 + (n % 10))

\* i64::to_string
IntToString(i) == IF i < 0 THEN <<45>> \o Digits(0 - i) ELSE Digits(i)

\* f64::to_string (Display) of the Floats of this model:
\* "1.5", "2", "0", "-0" and "NaN"
F64ToString(bits) ==
    CASE bits = <<0, 0, 0, 0, 0, 0, 248, 63>> -> <<49, 46, 53>>
      [] bits = <<0, 0, 0, 0, 0, 0, 0, 64>> -> <<50>>
      [] bits = <<0, 0, 0, 0, 0, 0, 0, 0>> -> <<48>>
      [] bits = <<0, 0, 0, 0, 0, 0, 0, 128>> -> <<45, 48>>
      [] IsNaN(bits) -> <<78, 97, 78>>

RECURSIVE Join(_, _)
\* [String]::join
Join(items, sep) ==
    IF items = << >> THEN << >>
    ELSE IF Len(items) = 1 THEN items[1]
    ELSE items[1] \o sep \o Join(Tail(items), sep)

RECURSIVE ValueToString(_), ValuesToString(_)
\* Value::to_string: the strings it can return.  An Array writes its items
\* in order; an Object writes "key: value" for its fields in the order its
\* HashMap iterates them.
ValueToString(v) ==
    CASE v.t = "String" -> {v.s}
      [] v.t = "Integer" -> {IntToString(v.i)}
      [] v.t = "Float" -> {F64ToString(v.bits)}
      [] v.t = "Boolean" -> {IF v.b THEN <<116, 114, 117, 101>> ELSE <<102, 97, 108, 115, 101>>}
      [] v.t = "Array" ->
            {<<91>> \o Join(items, <<44, 32>>) \o <<93>> : items \in ValuesToString(v.a)}
      [] v.t = "Object" ->
            UNION {{<<123>> \o Join([i \in 1..Len(order) |->
                                        order[i] \o <<58, 32>> \o items[i]],
                                    <<44, 32>>) \o <<125>> :
                        items \in ValuesToString([i \in 1..Len(order) |-> v.o[order[i]]])} :
                   order \in Orders(DOMAIN v.o)}
      [] v.t = "Null" -> {<<110, 117, 108, 108>>}

\* the to_string of each value of a sequence
ValuesToString(vs) ==
    IF vs = << >> THEN {<< >>}
    ELSE {<<h>> \o t : h \in ValueToString(Head(vs)), t \in ValuesToString(Tail(vs))}

RECURSIVE BatchGetNullForAbsent(_, _, _)
\* (mutant) batch_get mapping a key with no entry to Null
BatchGetNullForAbsent(s, keys, res) ==
    IF keys = << >> THEN res
    ELSE LET value == Get(s, Head(keys)) IN
         BatchGetNullForAbsent(s, Tail(keys),
             MapInsert(res, Head(keys), IF value.some THEN value.v ELSE VNull))

RECURSIVE BatchGet(_, _, _)
\* the loop of Database::batch_get: the keys found, with their values
BatchGet(s, keys, res) ==
    IF keys = << >> THEN res
    ELSE LET value == Get(s, Head(keys)) IN
         BatchGet(s, Tail(keys),
                  IF value.some THEN MapInsert(res, Head(keys), value.v) ELSE res)

\* Database::list_keys: the Vecs it can return
ListKeys(s) == Orders(DOMAIN s)

\* Database::get_all_integers
GetAllIntegers(s) == Orders({<<k, s[k].i>> : k \in {x \in DOMAIN s : s[x].t = "Integer"}})

\* (mutant) query stopping at the first match
QueryFirstMatch(s, condition) ==
    LET found == {<<k, s[k]>> : k \in {x \in DOMAIN s : Matches(condition, s[x])}} IN
    IF found = {} THEN {<< >>} ELSE {<<e>> : e \in found}

\* Database::query
Query(s, condition) ==
    Orders({<<k, s[k]>> : k \in {x \in DOMAIN s : Matches(condition, s[x])}})

\* (mutant) query_multiple keeping the entries that satisfy some condition
QueryMultipleAny(s, conditions) ==
    Orders({<<k, s[k]>> : k \in {x \in DOMAIN s :
        \E i \in 1..Len(conditions) : Matches(conditions[i], s[x])}})

\* Database::query_multiple
QueryMultiple(s, conditions) ==
    Orders({<<k, s[k]>> : k \in {x \in DOMAIN s :
        \A i \in 1..Len(conditions) : Matches(conditions[i], s[x])}})

\* (mutant) keys_with_prefix keeping the keys that contain the prefix anywhere
KeysContaining(s, prefix) == Orders({k \in DOMAIN s : StrContains(k, prefix)})

\* Database::keys_with_prefix
KeysWithPrefix(s, prefix) == Orders({k \in DOMAIN s : StartsWith(k, prefix)})

\* a method taking &self: it returns one of rets and has no other effect
DbRead(s, f, rets) == {Outcome(s, f, Ok, ret, << >>) : ret \in rets}

\* (mutant) get reloading the mapping from the file before it looks the key up
DbGetFromDisk(s, f, key) ==
    LET r == StorageLoad(f) IN
    IF r.res = Ok THEN {Outcome(r.data, f, Ok, Get(r.data, key), << >>)}
    ELSE DbRead(s, f, {Get(s, key)})

\* Database::get as a handler
DbGet(s, f, key) == DbRead(s, f, {Get(s, key)})

\* (mutant) update creating the key when it is absent
DbUpdateUpsert(s, f, key, value) ==
    {Outcome(MapInsert(s, key, value), f, Ok, "unit", << >>)}

\* Database::update
DbUpdate(s, f, key, value) ==
    IF key \in DOMAIN s
    THEN {Outcome(MapInsert(s, key, value), f, Ok, "unit", << >>)}
    ELSE {Outcome(s, f, Err, "KeyNotFound", << >>)}

\* (mutant) delete taking an absent key for a success
DbDeleteIdempotent(s, f, key) ==
    {Outcome(MapRemove(s, key), f, Ok, "unit", << >>)}

\* Database::delete
DbDelete(s, f, key) ==
    IF key \in DOMAIN s
    THEN {Outcome(MapRemove(s, key), f, Ok, "unit", << >>)}
    ELSE {Outcome(s, f, Err, "KeyNotFound", << >>)}

RECURSIVE RemoveAll(_, _, _)
\* the loop of batch_delete: [store, deleted]
RemoveAll(s, keys, deleted) ==
    IF keys = << >> THEN [store |-> s, deleted |-> deleted]
    ELSE IF Head(keys) \in DOMAIN s
         THEN RemoveAll(MapRemove(s, Head(keys)), Tail(keys), deleted + 1)
         ELSE RemoveAll(s, Tail(keys), deleted)

\* (mutant) batch_delete counting the keys it was given
DbBatchDeleteCountsList(s, f, keys) ==
    LET r == RemoveAll(s, keys, 0) IN {Outcome(r.store, f, Ok, Len(keys), << >>)}

\* Database::batch_delete
DbBatchDelete(s, f, keys) ==
    LET r == RemoveAll(s, keys, 0) IN {Outcome(r.store, f, Ok, r.deleted, << >>)}

\* (mutant) clear followed by a save of the emptied mapping
DbClearAndSave(s, f) ==
    {Outcome(EmptyMap, o.file, Ok, "unit", <<EmptyMap>>) : o \in StorageSave(f, EmptyMap)}

\* Database::clear
DbClear(s, f) == {Outcome(EmptyMap, f, Ok, "unit", << >>)}

(***************************************************************************)
(* The inputs of the model.                                                *)
(***************************************************************************)
\* "a", "ab"
Keys == {<<97>>, <<97, 98>>}
\* Integer(-7), Object {"n": String("x")}
DbValues == {VInteger(-7), VObject([k \in {<<110>>} |-> VString(<<120>>)])}
\* a snapshot an earlier run may have left at the path: {"ab": Integer(-7)}
InitSnapshots == {[k \in {<<97, 98>>} |-> VInteger(-7)]}

RECURSIVE SeqsUpTo(_, _)
\* the sequences over S of length at most n
SeqsUpTo(S, n) ==
    IF n = 0 THEN {<< >>}
    ELSE LET shorter == SeqsUpTo(S, n - 1) IN
         shorter \cup {Append(q, x) : q \in shorter, x \in S}

EntryLists == SeqsUpTo(Keys \X DbValues, MaxBatch)
KeyLists == SeqsUpTo(Keys, MaxBatch)

\* 1.5 and f64::NAN, least significant byte first
F1_5 == <<0, 0, 0, 0, 0, 0, 248, 63>>
FNaN == <<0, 0, 0, 0, 0, 0, 248, 127>>
\* 2.0, 0.0 and -0.0
F2_0 == <<0, 0, 0, 0, 0, 0, 0, 64>>
FZero == <<0, 0, 0, 0, 0, 0, 0, 0>>
FNegZero == <<0, 0, 0, 0, 0, 0, 0, 128>>

\* the field names "g" and "n", and Objects of one and of two fields
FieldG == <<103>>
FieldN == <<110>>
Obj1(field, v) == VObject([k \in {field} |-> v])
Obj2(field1, v1, field2, v2) ==
    VObject([k \in {field1, field2} |-> IF k = field1 THEN v1 ELSE v2])

\* the strings "hi", "Hi", "h", "i", "ih", "x", "2" and ""
StrHi == <<104, 105>>
StrCapHi == <<72, 105>>
StrH == <<104>>
StrI == <<105>>
StrIh == <<105, 104>>
StrX == <<120>>
Str2 == <<50>>
StrEmpty == << >>

\* the values a queried store holds: Objects whose field g is an Integer on
\* either side of the thresholds below, a Float, a numeric String, NaN, Null,
\* an Array or absent, with or without a String field n; and a bare Integer
QueryValues ==
    {Obj2(FieldG, VInteger(1), FieldN, VString(StrHi)),
     Obj1(FieldG, VInteger(2)),
     Obj2(FieldG, VInteger(3), FieldN, VString(StrCapHi)),
     Obj1(FieldG, VInteger(4)),
     Obj1(FieldG, VFloat(F2_0)),
     Obj1(FieldG, VFloat(FZero)),
     Obj1(FieldG, VString(Str2)),
     Obj1(FieldN, VInteger(2)),
     VInteger(2),
     Obj2(FieldG, VFloat(FNaN), FieldN, Obj1(FieldG, VFloat(FNaN))),
     Obj1(FieldG, VNull),
     Obj2(FieldG, VArray(<<VInteger(1), VInteger(2)>>), FieldN, Obj1(FieldG, VInteger(2)))}

\* the conditions queried
Conds ==
    {Between(FieldG, 2, 3), Between(FieldG, 3, 2),
     GreaterThan(FieldG, 2), LessThan(FieldG, 3),
     Equals(FieldG, VInteger(2)), Equals(FieldG, VFloat(F2_0)),
     Equals(FieldG, VFloat(FNaN)), Equals(FieldG, VFloat(FNegZero)),
     Equals(FieldG, VNull), Equals(FieldG, VString(Str2)),
     Equals(FieldG, VArray(<<VInteger(1), VInteger(2)>>)),
     Equals(FieldG, VArray(<<VInteger(2), VInteger(1)>>)),
     Equals(FieldN, Obj1(FieldG, VInteger(2))),
     Equals(FieldN, Obj1(FieldG, VFloat(FNaN))),
     Equals(FieldN, VString(StrX)),
     Contains(FieldN, StrEmpty), Contains(FieldN, StrH), Contains(FieldN, StrI),
     Contains(FieldN, StrHi), Contains(FieldN, StrIh), Contains(FieldN, StrX),
     Contains(FieldG, Str2)}

\* the conditions combined by query_multiple, in lists of at most MaxConds
MultiConds ==
    {GreaterThan(FieldG, 1), LessThan(FieldG, 4),
     Contains(FieldN, StrI), Equals(FieldN, VString(StrX))}
CondLists == SeqsUpTo(MultiConds, MaxConds)

\* the prefixes "", "a", "ab" and "b"
Prefixes == {<< >>, <<97>>, <<97, 98>>, <<98>>}

(***************************************************************************)
(* The state machine of one Database over one file, used by one caller    *)
(* (the methods take &mut self: a call returns before the next starts).   *)
(* last is the call that has just returned, with its name, arguments,     *)
(* result and save calls, or Idle once the caller has taken the result.   *)
(***************************************************************************)
Idle == [op |-> "idle"]

\* Database::new; the file is absent or an earlier snapshot
Init ==
    /\ store = EmptyMap
    /\ auto_save = TRUE
    /\ file \in {NoFile} \cup {FileOf(e) : e \in UNION {Serialize(m) : m \in InitSnapshots}}
    /\ last = Idle

Apply(call, o) ==
    /\ store' = o.store
    /\ file' = o.file
    /\ last' = call @@ [res |-> o.res, ret |-> o.ret, saves |-> o.saves]
    /\ UNCHANGED auto_save

Load ==
    /\ last = Idle
    /\ \E o \in DbLoad(store, file) : Apply([op |-> "load"], o)

Save ==
    /\ last = Idle
    /\ \E o \in DbSave(store, file) : Apply([op |-> "save"], o)

SetAutoSave ==
    /\ last = Idle
    /\ \E enabled \in BOOLEAN :
        /\ auto_save' = enabled
        /\ last' = [op |-> "set_auto_save", enabled |-> enabled]
        /\ UNCHANGED <<store, file>>

Insert ==
    /\ last = Idle
    /\ \E key \in Keys, value \in DbValues :
        \E o \in DbInsert(store, auto_save, file, key, value) :
            Apply([op |-> "insert", key |-> key, value |-> value], o)

BatchInsert ==
    /\ last = Idle
    /\ \E entries \in EntryLists :
        \E o \in DbBatchInsert(store, auto_save, file, entries) :
            Apply([op |-> "batch_insert", entries |-> entries], o)

Update ==
    /\ last = Idle
    /\ \E key \in Keys, value \in DbValues :
        \E o \in DbUpdate(store, file, key, value) :
            Apply([op |-> "update", key |-> key, value |-> value], o)

Delete ==
    /\ last = Idle
    /\ \E key \in Keys :
        \E o \in DbDelete(store, file, key) : Apply([op |-> "delete", key |-> key], o)

BatchDelete ==
    /\ last = Idle
    /\ \E keys \in KeyLists :
        \E o \in DbBatchDelete(store, file, keys) :
            Apply([op |-> "batch_delete", keys |-> keys], o)

Clear ==
    /\ last = Idle
    /\ \E o \in DbClear(store, file) : Apply([op |-> "clear"], o)

\* the methods that take &self
GetCall ==
    /\ last = Idle
    /\ \E key \in Keys :
        \E o \in DbGet(store, file, key) : Apply([op |-> "get", key |-> key], o)

BatchGetCall ==
    /\ last = Idle
    /\ \E keys \in KeyLists :
        \E o \in DbRead(store, file, {BatchGet(store, keys, EmptyMap)}) :
            Apply([op |-> "batch_get", keys |-> keys], o)

ListKeysCall ==
    /\ last = Idle
    /\ \E o \in DbRead(store, file, ListKeys(store)) : Apply([op |-> "list_keys"], o)

CountCall ==
    /\ last = Idle
    /\ \E o \in DbRead(store, file, {Count(store)}) : Apply([op |-> "count"], o)

ExistsCall ==
    /\ last = Idle
    /\ \E key \in Keys :
        \E o \in DbRead(store, file, {Exists(store, key)}) :
            Apply([op |-> "exists", key |-> key], o)

GetAllIntegersCall ==
    /\ last = Idle
    /\ \E o \in DbRead(store, file, GetAllIntegers(store)) :
        Apply([op |-> "get_all_integers"], o)

QueryCall ==
    /\ last = Idle
    /\ \E condition \in Conds :
        \E o \in DbRead(store, file, Query(store, condition)) :
            Apply([op |-> "query", condition |-> condition], o)

QueryMultipleCall ==
    /\ last = Idle
    /\ \E conditions \in CondLists :
        \E o \in DbRead(store, file, QueryMultiple(store, conditions)) :
            Apply([op |-> "query_multiple", conditions |-> conditions], o)

KeysWithPrefixCall ==
    /\ last = Idle
    /\ \E prefix \in Prefixes :
        \E o \in DbRead(store, file, KeysWithPrefix(store, prefix)) :
            Apply([op |-> "keys_with_prefix", prefix |-> prefix], o)

\* the caller takes the result and goes on to its next call
Return ==
    /\ last # Idle
    /\ last' = Idle
    /\ UNCHANGED <<store, auto_save, file>>

Next ==
    \/ Return
    \/ Load
    \/ Save
    \/ SetAutoSave
    \/ Insert
    \/ BatchInsert
    \/ Update
    \/ Delete
    \/ BatchDelete
    \/ Clear
    \/ GetCall
    \/ BatchGetCall
    \/ ListKeysCall
    \/ CountCall
    \/ ExistsCall
    \/ GetAllIntegersCall
    \/ QueryCall
    \/ QueryMultipleCall
    \/ KeysWithPrefixCall

Spec == Init /\ [][Next]_vars

(***************************************************************************)
(* A Database holding any mapping of the query values, read and queried:   *)
(* the &self methods, and Condition::matches called on a stored value.     *)
(***************************************************************************)
QueryStores == UNION {[S -> QueryValues] : S \in SUBSET Keys}

InitQuery ==
    /\ store \in QueryStores
    /\ auto_save = TRUE
    /\ file = NoFile
    /\ last = Idle

\* condition.matches(&value) on a value of the store
MatchesCall ==
    /\ last = Idle
    /\ \E condition \in Conds, k \in DOMAIN store :
        last' = [op |-> "matches", condition |-> condition, value |-> store[k],
                 ret |-> Matches(condition, store[k])]
    /\ UNCHANGED <<store, auto_save, file>>

\* value.to_string() on a value of the store and on a Value equal to it that
\* was built on its own (its Objects are HashMaps with their own hashers)
ToStringCall ==
    /\ last = Idle
    /\ \E k \in DOMAIN store :
        \E ret \in ValueToString(store[k]), other \in ValueToString(store[k]) :
            last' = [op |-> "to_string", value |-> store[k], ret |-> ret, other |-> other]
    /\ UNCHANGED <<store, auto_save, file>>

NextQuery ==
    \/ Return
    \/ ToStringCall
    \/ GetCall
    \/ BatchGetCall
    \/ ListKeysCall
    \/ CountCall
    \/ ExistsCall
    \/ GetAllIntegersCall
    \/ QueryCall
    \/ QueryMultipleCall
    \/ KeysWithPrefixCall
    \/ MatchesCall

SpecQuery == InitQuery /\ [][NextQuery]_vars

(***************************************************************************)
(* One StorageEngine used directly: the caller holds a mapping (store) and *)
(* calls save(&store) and load() on the path, in any order.                *)
(***************************************************************************)
\* an Object with two fields, one an Array holding an Object:
\* {"n": "hi", "t": [{"n": null}, true]}
NestedObject ==
    VObject([k \in {<<110>>, <<116>>} |->
        IF k = <<110>> THEN VString(<<104, 105>>)
        ELSE VArray(<<VObject([j \in {<<110>>} |-> VNull]), VBoolean(TRUE)>>)])

\* every variant, scalars with more than one payload, nested Array and Object
SnapValues ==
    { VString(<< >>), VString(<<195, 169>>),
      VInteger(-7), VInteger(300),
      VFloat(F1_5), VFloat(FNaN),
      VBoolean(FALSE),
      VArray(<< >>), VArray(<<VInteger(-7), VArray(<<VNull>>)>>),
      VObject(EmptyMap), NestedObject,
      VNull }

\* the mappings over Keys
SnapMaps == UNION {[S -> SnapValues] : S \in SUBSET Keys}

InitStorage ==
    /\ store \in SnapMaps
    /\ auto_save = TRUE
    /\ file \in {NoFile} \cup {FileOf(e) : e \in UNION {Serialize(m) : m \in InitSnapshots}}
    /\ last = Idle

\* storage.save(&store)
StorageSaveCall ==
    \E o \in StorageSave(file, store) :
        /\ file' = o.file
        /\ last' = [op |-> "storage.save", res |-> o.res, at |-> o.at]
        /\ UNCHANGED <<store, auto_save>>

\* storage.load(), its result kept in last
StorageLoadCall ==
    /\ last' = [op |-> "storage.load"] @@ StorageLoad(file)
    /\ UNCHANGED <<store, auto_save, file>>

NextStorage ==
    \/ StorageSaveCall
    \/ StorageLoadCall

SpecStorage == InitStorage /\ [][NextStorage]_vars

(***************************************************************************)
(* StorageEngine::save taken step by step, with crashes.  The file carries *)
(* a third field, stable: the image [exists, bytes] that stable storage is *)
(* known to hold, which is the file as of its last sync_all.  The caller   *)
(* holds one mapping (store) and passes it to every save; a crash ends the *)
(* process, and the next process calls load or save on the same path.      *)
(***************************************************************************)
\* a file whose content is on stable storage
Stable(f) == [exists |-> f.exists, bytes |-> f.bytes, stable |-> f]

\* (mutant) the file opened for writing without truncating it
CreateFileNoTruncate(f) ==
    [exists |-> TRUE, bytes |-> IF f.exists THEN f.bytes ELSE << >>, stable |-> f.stable]

\* File::create: the file exists and is empty
CreateFile(f) == [exists |-> TRUE, bytes |-> << >>, stable |-> f.stable]

\* one write of write_all: the bytes follow those already written
WriteBytes(f, chunk) == [f EXCEPT !.bytes = @ \o chunk]

\* (mutant) sync_all that does not wait for the disk
SyncAllNothing(f) == f

\* File::sync_all: what the file holds is on stable storage
SyncAll(f) == [f EXCEPT !.stable = [exists |-> TRUE, bytes |-> f.bytes]]

\* what a loss of power can leave of the file: the stable image; and, when
\* the file was changed since, the file cut after any number of whole writes
\* (the truncation and a part of the writes have reached the disk)
PowerLossImages(f) ==
    {f.stable} \cup
        IF f.exists /\ f.stable # [exists |-> TRUE, bytes |-> f.bytes]
        THEN {FileOf(SubSeq(f.bytes, 1, n)) :
                n \in {m \in 0..Len(f.bytes) : m % MaxChunk = 0 \/ m = Len(f.bytes)}}
        ELSE {}

\* the mappings saved: over Keys, of the values of DbValues
CrashMaps == UNION {[S -> DbValues] : S \in SUBSET Keys}

InitCrash ==
    /\ store \in CrashMaps
    /\ auto_save = TRUE
    /\ file \in {Stable(NoFile)}
                \cup {Stable(FileOf(e)) : e \in UNION {Serialize(m) : m \in InitSnapshots}}
    /\ last = Idle

\* save is called: bincode::serialize(data)
SaveStart ==
    /\ last.op # "saving"
    /\ \E encoded \in Serialize(store) :
        last' = [op |-> "saving", pc |-> "create", encoded |-> encoded,
                 written |-> 0, steps |-> << >>]
    /\ UNCHANGED <<store, auto_save, file>>

\* the result of a save that stops with an error
SaveFailed(at) == [op |-> "storage.save", res |-> Err, at |-> at, steps |-> last.steps]

\* File::create(&self.file_path)?
SaveCreate ==
    /\ last.op = "saving"
    /\ last.pc = "create"
    /\ \/ /\ file' = CreateFile(file)
          /\ last' = [last EXCEPT !.pc = "write", !.steps = Append(@, "create")]
       \/ /\ file' = file
          /\ last' = SaveFailed("create")
    /\ UNCHANGED <<store, auto_save>>

\* file.write_all(&encoded)?: writes of MaxChunk bytes, the last one of the
\* bytes that are left, until all bytes are written
SaveWrite ==
    /\ last.op = "saving"
    /\ last.pc = "write"
    /\ \/ /\ last.written = Len(last.encoded)
          /\ file' = file
          /\ last' = [last EXCEPT !.pc = "sync", !.steps = Append(@, "write")]
       \/ LET n == Min(MaxChunk, Len(last.encoded) - last.written) IN
            /\ n > 0
            /\ file' = WriteBytes(file, SubSeq(last.encoded, last.written + 1,
                                                last.written + n))
            /\ last' = [last EXCEPT !.written = @ + n]
       \/ /\ last.written < Len(last.encoded)
          /\ file' = file
          /\ last' = SaveFailed("write")
    /\ UNCHANGED <<store, auto_save>>

\* file.sync_all()?; Ok(())
SaveSync ==
    /\ last.op = "saving"
    /\ last.pc = "sync"
    /\ \/ /\ file' = SyncAll(file)
          /\ last' = [op |-> "storage.save", res |-> Ok, at |-> "",
                      steps |-> Append(last.steps, "sync")]
       \/ /\ file' = file
          /\ last' = SaveFailed("sync")
    /\ UNCHANGED <<store, auto_save>>

\* load(), between two saves
CrashLoad ==
    /\ last.op # "saving"
    /\ last' = [op |-> "storage.load"] @@ StorageLoad(file)
    /\ UNCHANGED <<store, auto_save, file>>

\* where a save was when the process ended
CrashedAt == IF last.op = "saving" THEN last.pc ELSE "none"

\* the process ends; the operating system keeps the file as written
ProcessCrash ==
    /\ last.op # "crash"
    /\ last' = [op |-> "crash", kind |-> "process", pc |-> CrashedAt]
    /\ UNCHANGED <<store, auto_save, file>>

\* the machine loses power
PowerLoss ==
    /\ last.op # "crash"
    /\ \E image \in PowerLossImages(file) : file' = Stable(image)
    /\ last' = [op |-> "crash", kind |-> "power", pc |-> CrashedAt]
    /\ UNCHANGED <<store, auto_save>>

NextCrash ==
    \/ SaveStart
    \/ SaveCreate
    \/ SaveWrite
    \/ SaveSync
    \/ CrashLoad
    \/ ProcessCrash
    \/ PowerLoss

SpecCrash == InitCrash /\ [][NextCrash]_vars

(***************************************************************************)
(* One StorageEngine with append: the caller holds a mapping (store) and   *)
(* calls save(&store), load() and append(key, &value) in any order.  The   *)
(* file carries a third field, appends: the calls of append that wrote to  *)
(* it since it was last created, which bounds them.                        *)
(***************************************************************************)
\* the values appended
AppendValues == {VNull, VInteger(-7)}

InitAppend ==
    /\ store \in CrashMaps
    /\ auto_save = TRUE
    /\ file \in {NoFile @@ [appends |-> 0]}
                \cup {FileOf(e) @@ [appends |-> 0] :
                        e \in UNION {Serialize(m) : m \in InitSnapshots}}
    /\ last = Idle

\* storage.save(&store)
AppendSaveCall ==
    /\ \E o \in StorageSave(file, store) :
        /\ file' = o.file @@ [appends |-> IF o.at = "create" THEN file.appends ELSE 0]
        /\ last' = [op |-> "storage.save", res |-> o.res, at |-> o.at]
    /\ UNCHANGED <<store, auto_save>>

\* storage.append(key, &value)
StorageAppendCall ==
    /\ file.appends < MaxAppends
    /\ \E key \in Keys, value \in AppendValues :
        \E o \in StorageAppend(file, key, value) :
            /\ file' = o.file @@ [appends |-> IF o.at = "open" THEN file.appends
                                              ELSE file.appends + 1]
            /\ last' = [op |-> "storage.append", key |-> key, value |-> value,
                        res |-> o.res, at |-> o.at]
    /\ UNCHANGED <<store, auto_save>>

NextAppend ==
    \/ AppendSaveCall
    \/ StorageAppendCall
    \/ StorageLoadCall

SpecAppend == InitAppend /\ [][NextAppend]_vars

(***************************************************************************)
(* Properties.                                                             *)
(***************************************************************************)

\* C1 (SpecStorage): once save(M) has returned Ok, load() on the file it
\* wrote returns Ok with a mapping equal to M, whatever the variants and the
\* nesting of M's values and whichever order the entries were written in.
C1_RoundTrip ==
    /\ []((last.op = "storage.save" /\ last.res = Ok)
            => StorageLoad(file) = [res |-> Ok, data |-> store])
    /\ [][(last.op = "storage.save" /\ last.res = Ok /\ last'.op = "storage.load")
            => (last'.res = Ok /\ last'.data = store)]_vars

\* a load that followed a successful save of two entries, one of them the
\* nested Object, and returned them
C1_Witness ==
    /\ last.op = "storage.load"
    /\ last.res = Ok
    /\ Cardinality(DOMAIN store) = 2
    /\ \E k \in DOMAIN store : store[k] = NestedObject
    /\ \E k \in DOMAIN store : store[k] = VFloat(FNaN)
    /\ last.data = store

\* the keys of a list of entries, and the value of a key's last occurrence
EntryKeys(entries) == {entries[i][1] : i \in 1..Len(entries)}
LastValue(entries, k) ==
    LET i == CHOOSE i \in 1..Len(entries) :
                /\ entries[i][1] = k
                /\ \A j \in (i + 1)..Len(entries) : entries[j][1] # k
    IN  entries[i][2]

\* the errors a failing save returns
IoErrors == {"create", "write", "sync"}

\* the call failed in File::create, before the file was touched
CreateFailed(call) == call.res = Err /\ call.ret = "create"

\* what load() would return for the file as it is
OnDisk == StorageLoad(file)
InSync == OnDisk = [res |-> Ok, data |-> store]

\* C2 (Spec): with auto-save enabled, when insert or batch_insert has
\* returned Ok the file decodes to exactly the whole in-memory mapping.
C2_AutoSaveWritesWholeMapping ==
    (last.op \in {"insert", "batch_insert"} /\ last.res = Ok /\ auto_save) => InSync

\* an auto-saving insert that left two entries in memory and on disk
C2_Witness ==
    /\ last.op = "insert"
    /\ last.res = Ok
    /\ auto_save
    /\ Count(store) = 2
    /\ InSync

\* C3 (Spec): when the save of insert or batch_insert fails, the call
\* returns that error, the mutation stays applied in memory, and save was
\* attempted exactly once, on the mutated mapping.
C3_FailedSaveKeepsMutation ==
    (last.op \in {"insert", "batch_insert"} /\ last.res = Err) =>
        /\ auto_save
        /\ last.ret \in IoErrors
        /\ last.saves = <<store>>
        /\ last.op = "insert" => Get(store, last.key) = Some(last.value)
        /\ last.op = "batch_insert" =>
              \A k \in EntryKeys(last.entries) :
                  Get(store, k) = Some(LastValue(last.entries, k))

\* an insert whose save failed: the value is in memory, the disk differs
C3_Witness ==
    /\ last.op = "insert"
    /\ last.res = Err
    /\ Get(store, last.key) = Some(last.value)
    /\ ~InSync

\* C4 (Spec): insert(k, v) sets k to v, leaves every other key as it was,
\* and raises count() by 1 exactly when k was absent.
C4_InsertOrOverwrite ==
    [][last'.op = "insert" =>
        /\ Get(store', last'.key) = Some(last'.value)
        /\ \A k \in Keys \ {last'.key} : Get(store', k) = Get(store, k)
        /\ Count(store') = Count(store) + (IF Exists(store, last'.key) THEN 0 ELSE 1)
      ]_vars

\* an insert that left two keys, the other one holding a different value
C4_Witness ==
    /\ last.op = "insert"
    /\ Count(store) = 2
    /\ \E k \in DOMAIN store : store[k] # last.value

\* C5 (Spec): update(k, v) on an absent key returns the key-not-found error
\* and changes nothing; on a present key it returns Ok, k maps to v, the
\* other keys and count() are as before.
C5_UpdateRequiresKey ==
    [][last'.op = "update" =>
        IF Exists(store, last'.key)
        THEN /\ last'.res = Ok
             /\ Get(store', last'.key) = Some(last'.value)
             /\ \A k \in Keys \ {last'.key} : Get(store', k) = Get(store, k)
             /\ Count(store') = Count(store)
        ELSE /\ last'.res = Err
             /\ last'.ret = "KeyNotFound"
             /\ store' = store
      ]_vars

\* an update refused for a key that is absent while another key is present
C5_Witness ==
    /\ last.op = "update"
    /\ last.res = Err
    /\ ~Exists(store, last.key)
    /\ Count(store) = 1

\* C6 (Spec): delete(k) on an absent key returns the key-not-found error and
\* changes nothing; on a present key it returns Ok, removes k alone and
\* lowers count() by 1.
C6_DeleteRequiresKey ==
    [][last'.op = "delete" =>
        IF Exists(store, last'.key)
        THEN /\ last'.res = Ok
             /\ ~Exists(store', last'.key)
             /\ \A k \in Keys \ {last'.key} : Get(store', k) = Get(store, k)
             /\ Count(store') = Count(store) - 1
        ELSE /\ last'.res = Err
             /\ last'.ret = "KeyNotFound"
             /\ store' = store
      ]_vars

\* a delete that removed one of two keys
C6_Witness ==
    /\ last.op = "delete"
    /\ last.res = Ok
    /\ Count(store) = 1
    /\ ~Exists(store, last.key)

C8_BatchInsertLastWins ==
    [][last'.op = "batch_insert" =>
        /\ \A k \in EntryKeys(last'.entries) :
              Get(store', k) = Some(LastValue(last'.entries, k))
        /\ \A k \in Keys \ EntryKeys(last'.entries) : Get(store', k) = Get(store, k)
        /\ Count(store') = Cardinality(DOMAIN store \cup EntryKeys(last'.entries))
      ]_vars

\* a batch_insert of one key twice with two values, beside an older key
C8_Witness ==
    /\ last.op = "batch_insert"
    /\ Len(last.entries) = 2
    /\ last.entries[1][1] = last.entries[2][1]
    /\ last.entries[1][2] # last.entries[2][2]
    /\ Count(store) = 2

\* C9 (Spec): batch_insert calls save exactly once, on the mapping with all
\* entries applied, when auto-save is enabled (also for an empty list) and
\* never when it is disabled; the file is left alone when no save is made or
\* File::create failed, and a file the call has replaced and that decodes
\* holds the whole batch, never a part of it.
C9_BatchInsertSavesOnce ==
    /\ [](last.op = "batch_insert" =>
            /\ EntryKeys(last.entries) \subseteq DOMAIN store
            /\ last.saves = IF auto_save THEN <<store>> ELSE << >>
            /\ (auto_save /\ ~CreateFailed(last) /\ OnDisk.res = Ok) =>
                  OnDisk.data = store)
    /\ [][(last'.op = "batch_insert" /\ (~auto_save \/ CreateFailed(last'))) =>
            file' = file]_vars

\* an auto-saving batch_insert of two different keys that reached the disk
C9_Witness ==
    /\ last.op = "batch_insert"
    /\ Len(last.entries) = 2
    /\ Cardinality(EntryKeys(last.entries)) = 2
    /\ auto_save
    /\ last.res = Ok
    /\ Len(last.saves) = 1
    /\ InSync

\* C10 (Spec): a successful batch_insert returns the length of the list it
\* was given, repeated and already present keys included.
C10_BatchInsertReturnsLength ==
    (last.op = "batch_insert" /\ last.res = Ok) => last.ret = Len(last.entries)

\* a batch_insert of the same key twice: 2 returned, one entry in the store
C10_Witness ==
    /\ last.op = "batch_insert"
    /\ last.res = Ok
    /\ Len(last.entries) = 2
    /\ Count(store) = 1
    /\ last.ret = 2

\* C11 (Spec): batch_delete(keys) never fails; it removes every listed key
\* that is present, leaves every other entry as it was, and returns the
\* number of entries removed, count() before minus count() after: an absent
\* key and a second occurrence of a key add nothing.
C11_BatchDeleteCountsRemoved ==
    [][last'.op = "batch_delete" =>
        LET listed == {last'.keys[i] : i \in 1..Len(last'.keys)} IN
        /\ last'.res = Ok
        /\ DOMAIN store' = DOMAIN store \ listed
        /\ \A k \in DOMAIN store' : store'[k] = store[k]
        /\ last'.ret = Count(store) - Count(store')
        /\ last'.ret = Cardinality(listed \cap DOMAIN store)
        /\ file' = file
      ]_vars

\* a batch_delete naming the same key twice, present once: 1 returned
\* although the list has two elements, the other entry kept
C11_Witness ==
    /\ last.op = "batch_delete"
    /\ Len(last.keys) = 2
    /\ last.keys[1] = last.keys[2]
    /\ last.ret = 1
    /\ Count(store) = 1
    /\ last.keys[1] \notin DOMAIN store

ReadOps ==
    {"get", "batch_get", "list_keys", "count", "exists", "get_all_integers",
     "query", "query_multiple", "keys_with_prefix"}
Range(q) == {q[i] : i \in 1..Len(q)}

\* C14 (Spec): get, batch_get, list_keys, count, exists, get_all_integers,
\* query, query_multiple and keys_with_prefix leave the mapping, the
\* auto-save flag and the file as they were, and what they return is
\* determined by the in-memory mapping and the arguments, whatever the file
\* holds.
C14_ReadsChangeNothing ==
    /\ [][last'.op \in ReadOps =>
            (store' = store /\ auto_save' = auto_save /\ file' = file)]_vars
    /\ [](/\ last.op = "get" =>
                last.ret = IF last.key \in DOMAIN store
                           THEN [some |-> TRUE, v |-> store[last.key]]
                           ELSE [some |-> FALSE]
          /\ last.op = "batch_get" =>
                /\ DOMAIN last.ret = Range(last.keys) \cap DOMAIN store
                /\ \A k \in DOMAIN last.ret : last.ret[k] = store[k]
          /\ last.op = "list_keys" =>
                (Range(last.ret) = DOMAIN store /\ Len(last.ret) = Cardinality(DOMAIN store))
          /\ last.op = "count" => last.ret = Cardinality(DOMAIN store)
          /\ last.op = "exists" => last.ret = (last.key \in DOMAIN store)
          /\ last.op = "get_all_integers" => last.ret \in GetAllIntegers(store)
          /\ last.op = "query" => last.ret \in Query(store, last.condition)
          /\ last.op = "query_multiple" =>
                last.ret \in QueryMultiple(store, last.conditions)
          /\ last.op = "keys_with_prefix" =>
                last.ret \in KeysWithPrefix(store, last.prefix))

\* a get that found an entry the file does not hold: there is no file
C14_Witness ==
    /\ last.op = "get"
    /\ last.ret.some
    /\ ~file.exists
    /\ Count(store) = 2

\* C15 (SpecQuery): query(condition) returns the entries whose value
\* satisfies condition.matches: every element is a key of the store paired
\* with its stored value and the value matches; every key whose value
\* matches occurs exactly once.
C15_QueryReturnsMatches ==
    last.op = "query" =>
        /\ \A i \in 1..Len(last.ret) :
              /\ last.ret[i][1] \in DOMAIN store
              /\ last.ret[i][2] = store[last.ret[i][1]]
              /\ Matches(last.condition, last.ret[i][2])
        /\ \A k \in DOMAIN store :
              Matches(last.condition, store[k]) =>
                  Cardinality({i \in 1..Len(last.ret) : last.ret[i][1] = k}) = 1

\* a query over two entries with different values of which one matches:
\* it alone is returned
C15_Witness ==
    /\ last.op = "query"
    /\ Count(store) = 2
    /\ Len(last.ret) = 1
    /\ \E k \in DOMAIN store : ~Matches(last.condition, store[k])

\* the entries query(condition) returns, as a set
QuerySet(s, condition) == UNION {Range(q) : q \in Query(s, condition)}

\* C16 (SpecQuery): query_multiple(conditions) returns, each once, the
\* entries that are in the result of query(c) for every c of the list; for
\* the empty list these are all entries, values that are not Objects
\* included.
C16_QueryMultipleIsIntersection ==
    last.op = "query_multiple" =>
        LET entries == {<<k, store[k]>> : k \in DOMAIN store} IN
        /\ Range(last.ret) =
              {e \in entries : \A i \in 1..Len(last.conditions) :
                  e \in QuerySet(store, last.conditions[i])}
        /\ Len(last.ret) = Cardinality(Range(last.ret))
        /\ last.conditions = << >> => Range(last.ret) = entries

\* two different conditions over a store of two entries: one entry satisfies
\* both and is returned, the other satisfies the first only and is not
C16_Witness ==
    /\ last.op = "query_multiple"
    /\ Len(last.conditions) = 2
    /\ last.conditions[1] # last.conditions[2]
    /\ Count(store) = 2
    /\ Len(last.ret) = 1
    /\ \E k \in DOMAIN store :
          /\ Matches(last.conditions[1], store[k])
          /\ ~Matches(last.conditions[2], store[k])

\* the Integer held by a field of an Object, if there is one
HoldsInteger(v, field) ==
    v.t = "Object" /\ field \in DOMAIN v.o /\ v.o[field].t = "Integer"

\* C17 (SpecQuery): Between(field, min, max).matches(v) is true exactly when
\* v is an Object whose field holds an Integer x with min <= x <= max, both
\* ends included; it is false at min - 1 and max + 1, for an absent or
\* non-Integer field, and for every x when min > max.
C17_BetweenInclusive ==
    (last.op = "matches" /\ last.condition.c = "Between") =>
        LET c == last.condition
            v == last.value
        IN  /\ last.ret = (/\ HoldsInteger(v, c.field)
                           /\ c.min <= v.o[c.field].i
                           /\ v.o[c.field].i <= c.max)
            /\ HoldsInteger(v, c.field) =>
                  /\ v.o[c.field].i \in {c.min - 1, c.max + 1} => ~last.ret
                  /\ (v.o[c.field].i \in {c.min, c.max} /\ c.min <= c.max) => last.ret
            /\ c.min > c.max => ~last.ret

\* Between with min < max on an Integer equal to max
C17_Witness ==
    /\ last.op = "matches"
    /\ last.condition.c = "Between"
    /\ last.condition.min < last.condition.max
    /\ HoldsInteger(last.value, last.condition.field)
    /\ last.value.o[last.condition.field].i = last.condition.max
    /\ last.ret

\* C18 (SpecQuery): GreaterThan(field, t).matches(v) is true exactly when
\* the field holds an Integer x > t and LessThan(field, t) exactly when it
\* holds an Integer x < t, both strict; an absent field and a field holding
\* a Float or a String give false.
C18_StrictComparisons ==
    (last.op = "matches" /\ last.condition.c \in {"GreaterThan", "LessThan"}) =>
        LET c == last.condition
            v == last.value
        IN  IF HoldsInteger(v, c.field)
            THEN last.ret = IF c.c = "GreaterThan"
                            THEN v.o[c.field].i > c.threshold
                            ELSE v.o[c.field].i < c.threshold
            ELSE ~last.ret

\* GreaterThan on an Integer equal to the threshold: false
C18_Witness ==
    /\ last.op = "matches"
    /\ last.condition.c = "GreaterThan"
    /\ HoldsInteger(last.value, last.condition.field)
    /\ last.value.o[last.condition.field].i = last.condition.threshold
    /\ ~last.ret

RECURSIVE HasNaN(_)
\* a value that is or holds a Float NaN
HasNaN(v) ==
    CASE v.t = "Float" -> IsNaN(v.bits)
      [] v.t = "Array" -> \E i \in 1..Len(v.a) : HasNaN(v.a[i])
      [] v.t = "Object" -> \E k \in DOMAIN v.o : HasNaN(v.o[k])
      [] OTHER -> FALSE

RECURSIVE PlusZero(_)
\* the value with every Float -0.0 in it replaced by 0.0
PlusZero(v) ==
    CASE v.t = "Float" -> IF IsZero(v.bits) THEN VFloat(FZero) ELSE v
      [] v.t = "Array" -> VArray([i \in 1..Len(v.a) |-> PlusZero(v.a[i])])
      [] v.t = "Object" -> VObject([k \in DOMAIN v.o |-> PlusZero(v.o[k])])
      [] OTHER -> v

\* C19 as stated (SpecQuery): Equals(field, expected).matches(v) is true
\* exactly when v is an Object that contains the field and the field's
\* value has the variant and the payload of expected (0.0 and -0.0 taken
\* for the same payload, which favours the statement).
C19_EqualsIsStructural ==
    (last.op = "matches" /\ last.condition.c = "Equals") =>
        last.ret = (/\ last.value.t = "Object"
                    /\ last.condition.field \in DOMAIN last.value.o
                    /\ PlusZero(last.value.o[last.condition.field])
                          = PlusZero(last.condition.value))

\* C19 amended (SpecQuery): Equals(field, expected).matches(v) is true
\* exactly when v is an Object that contains the field and the field's
\* value has the variant and the payload of expected, Floats compared as
\* IEEE-754 numbers: a value holding a NaN equals nothing, itself included,
\* and 0.0 equals -0.0.  An absent field gives false, also for Null.
C19_EqualsIsIeeeStructural ==
    (last.op = "matches" /\ last.condition.c = "Equals") =>
        LET c == last.condition
            v == last.value
        IN  /\ last.ret = (/\ v.t = "Object"
                           /\ c.field \in DOMAIN v.o
                           /\ ~HasNaN(v.o[c.field])
                           /\ PlusZero(v.o[c.field]) = PlusZero(c.value))
            /\ (v.t # "Object" \/ c.field \notin DOMAIN v.o) => ~last.ret

\* Equals(field, NaN) on an Object whose field holds the same NaN: false
C19_Witness ==
    /\ last.op = "matches"
    /\ last.condition.c = "Equals"
    /\ last.value.t = "Object"
    /\ last.condition.field \in DOMAIN last.value.o
    /\ last.value.o[last.condition.field] = last.condition.value
    /\ HasNaN(last.condition.value)
    /\ ~last.ret

\* C20 (SpecQuery): Contains(field, s).matches(v) is true exactly when v is
\* an Object whose field holds a String in which s occurs as a run of
\* consecutive bytes, compared exactly (so case matters); the empty s occurs
\* in every String; an absent or non-String field gives false.
C20_ContainsSubstring ==
    (last.op = "matches" /\ last.condition.c = "Contains") =>
        LET c == last.condition
            v == last.value
            holdsString == v.t = "Object" /\ c.field \in DOMAIN v.o
                           /\ v.o[c.field].t = "String"
        IN  /\ last.ret = (/\ holdsString
                           /\ \E i \in 0..Len(v.o[c.field].s), j \in 0..Len(v.o[c.field].s) :
                                 i <= j /\ SubSeq(v.o[c.field].s, i + 1, j) = c.substring)
            /\ (holdsString /\ c.substring = << >>) => last.ret

\* Contains of a substring that is not at the start of the field's String
C20_Witness ==
    /\ last.op = "matches"
    /\ last.condition.c = "Contains"
    /\ last.ret
    /\ last.condition.substring # << >>
    /\ Head(last.value.o[last.condition.field].s) # Head(last.condition.substring)

\* C21 (SpecQuery): batch_get(keys) returns a mapping whose keys are the
\* requested keys that have an entry, each with its stored value: a
\* requested key with no entry is left out, not mapped to Null, and a key
\* requested twice is there once.
C21_BatchGetOmitsAbsent ==
    last.op = "batch_get" =>
        /\ \A k \in Keys :
              k \in DOMAIN last.ret <=> (k \in Range(last.keys) /\ k \in DOMAIN store)
        /\ \A k \in DOMAIN last.ret : last.ret[k] = store[k]
        /\ Cardinality(DOMAIN last.ret) <= Cardinality(Range(last.keys))

\* a batch_get of a key that has an entry and a key that has none
C21_Witness ==
    /\ last.op = "batch_get"
    /\ Len(last.keys) = 2
    /\ \E i \in 1..2 : last.keys[i] \in DOMAIN store
    /\ \E i \in 1..2 : last.keys[i] \notin DOMAIN store
    /\ Cardinality(DOMAIN last.ret) = 1

\* C22 (SpecQuery): keys_with_prefix(p) returns, each once, the keys of the
\* store whose first Len(p) bytes are p: every key for the empty prefix, no
\* key when none starts with p.
C22_KeysWithPrefixExact ==
    last.op = "keys_with_prefix" =>
        LET p == last.prefix
            starts == {k \in DOMAIN store :
                          Len(p) <= Len(k) /\ \A i \in 1..Len(p) : k[i] = p[i]}
        IN  /\ Range(last.ret) = starts
            /\ Len(last.ret) = Cardinality(starts)
            /\ p = << >> => Range(last.ret) = DOMAIN store

\* the prefix "ab" over the keys "a" and "ab": the second alone is returned
C22_Witness ==
    /\ last.op = "keys_with_prefix"
    /\ last.prefix = <<97, 98>>
    /\ DOMAIN store = {<<97>>, <<97, 98>>}
    /\ last.ret = <<(<<97, 98>>)>>

\* C23 as stated (SpecQuery): to_string is a function of the value: a Value
\* and a Value structurally equal to it render to the same string.
C23_ToStringDeterministic ==
    last.op = "to_string" => last.ret = last.other

\* p is a proper prefix of s
IsProperPrefix(p, s) == Len(p) < Len(s) /\ SubSeq(s, 1, Len(p)) = p

\* C24 as stated (SpecStorage): a save that returns an error leaves the file
\* such that load returns what it returned before the call.
C24_FailedSaveKeepsSnapshot ==
    [][(last'.op = "storage.save" /\ last'.res = Err) =>
          StorageLoad(file') = StorageLoad(file)]_vars

\* C24 amended (SpecStorage): a save that returns an error has left the
\* file as it was only when File::create failed.  When write_all failed the
\* file has been truncated and holds a proper prefix of the new encoding,
\* which load rejects; when sync_all failed it holds the whole new encoding,
\* which load decodes to the mapping given to save.
C24_FailedSaveByStage ==
    /\ []((last.op = "storage.save" /\ last.res = Err /\ last.at = "write") =>
            /\ file.exists
            /\ \E e \in Serialize(store) : IsProperPrefix(file.bytes, e)
            /\ StorageLoad(file).res = Err)
    /\ []((last.op = "storage.save" /\ last.res = Err /\ last.at = "sync") =>
            /\ file.exists
            /\ file.bytes \in Serialize(store)
            /\ StorageLoad(file) = [res |-> Ok, data |-> store])
    /\ [][(last'.op = "storage.save" /\ last'.res = Err) =>
            /\ last'.at \in {"create", "write", "sync"}
            /\ last'.at = "create" => file' = file]_vars

\* a save of a non-empty mapping that failed in write_all after two bytes:
\* the file no longer decodes
C24_Witness ==
    /\ last.op = "storage.save"
    /\ last.res = Err
    /\ last.at = "write"
    /\ store # EmptyMap
    /\ Len(file.bytes) = 2
    /\ StorageLoad(file).res = Err

\* p is a prefix of s, s itself included
IsPrefix(p, s) == Len(p) <= Len(s) /\ SubSeq(s, 1, Len(p)) = p

\* C25 (SpecCrash): save writes the file in place: once File::create has
\* returned, the file holds the part of the new encoding written so far and
\* nothing of its old content, so a crash before the last write leaves a
\* proper prefix of the encoding, which load rejects: the file then decodes
\* neither to the mapping saved before nor to the one being saved.
C25_CrashLeavesPrefix ==
    /\ []((last.op = "saving" /\ last.pc # "create") =>
            /\ file.exists
            /\ file.bytes = SubSeq(last.encoded, 1, last.written))
    /\ [][(last.op = "saving" /\ last.pc # "create" /\ last'.op = "crash") =>
            /\ last'.kind = "process" => file'.bytes = file.bytes
            /\ (file'.exists /\ IsPrefix(file'.bytes, last.encoded))
                  \/ (last'.kind = "power" /\ Stable(file.stable) = file')
            /\ (file'.exists /\ IsProperPrefix(file'.bytes, last.encoded)) =>
                  StorageLoad(file').res = Err]_vars

\* the process ended in write_all, past the length header of a non-empty
\* mapping: the file exists and load returns an error
C25_Witness ==
    /\ last.op = "crash"
    /\ last.kind = "process"
    /\ last.pc = "write"
    /\ file.exists
    /\ Len(file.bytes) > 8
    /\ \E e \in Serialize(store) : IsProperPrefix(file.bytes, e)
    /\ StorageLoad(file).res = Err

\* the file is on stable storage
OnStable == file.exists /\ file.stable = [exists |-> TRUE, bytes |-> file.bytes]

\* the file is on stable storage and decodes to the caller's mapping
Durable == OnStable /\ StorageLoad(file) = [res |-> Ok, data |-> store]

\* C26 (SpecCrash): a save returns Ok only after File::create, then all the
\* writes, then sync_all; the file then holds the encoding of the mapping
\* saved, on stable storage, and load returns that mapping.  A file on
\* stable storage is left as it is by every step that is not a step of a
\* later save, a crash of the process or a loss of power included, so load
\* still returns the mapping saved after a crash.
C26_SavedIsDurable ==
    /\ []((last.op = "storage.save" /\ last.res = Ok) =>
            /\ last.steps = <<"create", "write", "sync">>
            /\ file.bytes \in Serialize(store)
            /\ Durable)
    /\ []((last.op = "crash" /\ OnStable /\ file.bytes \in Serialize(store)) => Durable)
    /\ [][(OnStable /\ (last.op # "saving" \/ last'.op = "crash")) => file' = file]_vars

\* power is lost after a save of two entries has returned Ok: the file still
\* decodes to them
C26_Witness ==
    /\ last.op = "crash"
    /\ last.kind = "power"
    /\ last.pc = "none"
    /\ Count(store) = 2
    /\ Durable

\* C27 (Spec): when the file exists and does not decode, StorageEngine.load
\* returns an error that carries no mapping, and Database.load returns that
\* error and leaves the mapping, the flag and the file as they were.  A
\* load fails in no other case, and a file cut short of an encoding of the
\* mapping does not decode.
C27_UndecodableFileIsAnError ==
    /\ [](last.op = "load" =>
            /\ last.res = Err <=> (file.exists /\ ~Deserialize(file.bytes).ok)
            /\ last.res = Err => (OnDisk = [res |-> Err] /\ last.ret = "decode"))
    /\ []((file.exists /\ \E e \in Serialize(store) : IsProperPrefix(file.bytes, e)) =>
            OnDisk = [res |-> Err])
    /\ [][(last'.op = "load" /\ last'.res = Err) =>
            (store' = store /\ auto_save' = auto_save /\ file' = file)]_vars

\* a load of a file that a failed save has cut short, by a Database holding
\* two entries: the error is returned and the entries are still there
C27_Witness ==
    /\ last.op = "load"
    /\ last.res = Err
    /\ file.exists
    /\ Len(file.bytes) < 8
    /\ Count(store) = 2

\* the file begins with an encoding of the caller's mapping
BeginsWithSaved == file.exists /\ \E e \in Serialize(store) : IsPrefix(e, file.bytes)

\* C28 (SpecAppend): append only adds bytes after those the file holds, so
\* a file that save(M) wrote still begins with the encoding of M after any
\* number of appends, whole or cut short; load of such a file returns Ok
\* with exactly M, the appended blocks neither merged nor reported; and a
\* save that returns Ok leaves the encoding of its mapping and nothing else.
C28_AppendIsNotReadBack ==
    /\ [](BeginsWithSaved => StorageLoad(file) = [res |-> Ok, data |-> store])
    /\ []((last.op = "storage.load" /\ BeginsWithSaved) =>
            (last.res = Ok /\ last.data = store))
    /\ []((last.op = "storage.save" /\ last.res = Ok) =>
            (file.bytes \in Serialize(store) /\ file.appends = 0))
    /\ [][last'.op = "storage.append" =>
            /\ IsPrefix(file.bytes, file'.bytes)
            /\ last'.res = Ok =>
                  (file'.exists /\ Len(file'.bytes) > Len(file.bytes) + 8)]_vars

\* a load of a file holding the encoding of a mapping of one entry followed
\* by two whole appended blocks: the one entry is returned
C28_Witness ==
    /\ last.op = "storage.load"
    /\ last.res = Ok
    /\ Count(store) = 1
    /\ last.data = store
    /\ file.appends = 2
    /\ \E e \in Serialize(store) :
          IsPrefix(e, file.bytes) /\ Len(file.bytes) >= Len(e) + 42

\* the file holds a snapshot an earlier run left, one of InitSnapshots
HoldsSnapshot ==
    file.exists /\ file.bytes \in UNION {Serialize(m) : m \in InitSnapshots}

\* C29 (Spec): Database::new gives an empty mapping with auto-save enabled
\* whatever the file holds; an auto-saving insert that returns Ok while the
\* mapping is empty and the file holds an earlier snapshot leaves the file
\* holding the encoding of the one entry inserted; and after any auto-saving
\* insert that returned Ok the file decodes to a mapping without any key
\* that is absent from memory, so a snapshot entry not re-inserted is gone.
C29_NewDoesNotLoad ==
    /\ (store = EmptyMap /\ auto_save = TRUE)
    /\ []((last.op = "insert" /\ last.res = Ok /\ auto_save) =>
            /\ OnDisk.res = Ok
            /\ \A k \in Keys : k \notin DOMAIN store => k \notin DOMAIN OnDisk.data)
    /\ [][(store = EmptyMap /\ HoldsSnapshot /\ last'.op = "insert"
             /\ last'.res = Ok /\ auto_save) =>
            /\ store' = MapInsert(EmptyMap, last'.key, last'.value)
            /\ file'.bytes \in Serialize(store')
            /\ (last'.key # <<97, 98>> => file'.bytes # file.bytes)]_vars

\* an auto-saving insert of "a" has returned Ok, "a" is the only entry in
\* memory and the file decodes to that entry alone: "ab", which only a
\* snapshot can have held, is not on disk
C29_Witness ==
    /\ last.op = "insert"
    /\ last.res = Ok
    /\ auto_save
    /\ last.key = <<97>>
    /\ DOMAIN store = {<<97>>}
    /\ OnDisk.res = Ok
    /\ DOMAIN OnDisk.data = {<<97>>}

\* C30 (Spec): with auto-save disabled no operation but save changes the
\* file; insert and batch_insert then return Ok, save nothing and change
\* only the mapping; set_auto_save sets the flag to its argument and leaves
\* the mapping and the file as they were.
C30_AutoSaveOffKeepsDisk ==
    [][/\ (~auto_save /\ last'.op # "save") => file' = file
       /\ (~auto_save /\ last'.op \in {"insert", "batch_insert"}) =>
             (last'.res = Ok /\ last'.saves = << >> /\ auto_save' = auto_save)
       /\ (~auto_save /\ last'.op = "insert") =>
             store' = MapInsert(store, last'.key, last'.value)
       /\ last'.op = "set_auto_save" =>
             (store' = store /\ file' = file /\ auto_save' = last'.enabled)]_vars

\* a batch_insert of two entries has returned Ok with auto-save disabled
\* while the file still holds the earlier snapshot, which differs from the
\* two entries in memory
C30_Witness ==
    /\ last.op = "batch_insert"
    /\ ~auto_save
    /\ last.res = Ok
    /\ Count(store) = 2
    /\ HoldsSnapshot
    /\ store \notin InitSnapshots

====
